---------------------------- MODULE Spec2Model ----------------------------
(***************************************************************************)
(* CaTE parameter marshalling layer (src/cate/param.py) and the            *)
(* alternating calibration driver (src/examples/needles/util.py).          *)
(*                                                                         *)
(* Python objects are records [t, v]: t is the runtime type, v the         *)
(* numbers it holds (a number holds one).  Numbers are integers standing   *)
(* for float64 values that numpy stores exactly; NegInf and PosInf stand   *)
(* for -numpy.inf and +numpy.inf.                                          *)
(***************************************************************************)
EXTENDS Integers, Sequences, FiniteSets, TLC

VARIABLES params, last, pc, nr_iters, iter, geoms, markers, hist

codecVars == <<params, last>>
driverVars == <<pc, nr_iters, iter, geoms, markers, hist>>
vars == <<params, last, pc, nr_iters, iter, geoms, markers, hist>>

-----------------------------------------------------------------------------
(* Bounds of the model *)

MaxParams == 2
MaxFlat == 4
MaxIters == 3

(* Program constants *)

VectorLen == 3
NegInf == -1000
PosInf == 1000
Uninit == -999

-----------------------------------------------------------------------------
(* Python values.  FnNum(n) is a zero-argument producer that returns n. *)

Num(n) == [t |-> "num", v |-> <<n>>]
Arr(s) == [t |-> "arr", v |-> s]
Lst(s) == [t |-> "list", v |-> s]
None == [t |-> "none", v |-> <<>>]
FnNum(n) == [t |-> "fnnum", v |-> <<n>>]
ErrClass == [t |-> "ValueErrorClass", v |-> <<>>]

Ok(val) == [err |-> "ok", val |-> val]
Raise(e) == [err |-> e, val |-> None]

NoBounds == [set |-> FALSE, lo |-> <<>>, hi |-> <<>>]
Bounds(lo, hi) == [set |-> TRUE, lo |-> lo, hi |-> hi]

Repeat(a, n) == [k \in 1..n |-> a]

(* numpy.isscalar *)
isscalar(val) == val.t = "num"

(* callable() *)
callable(val) == val.t = "fnnum"

(* len() of a Python object *)
pylen(val) ==
    IF val.t \in {"arr", "list"} THEN Ok(Len(val.v)) ELSE Raise("TypeError")

(* x[a : b] of a list or an ndarray x, 0-based, cut at the end of x *)
Min(a, b) == IF a < b THEN a ELSE b
(* As Slice, with the running index left out: x[0 : len_p] *)
Slice_from_start(x, a, b) ==
    [t |-> x.t, v |-> SubSeq(x.v, 1, Min(b - a, Len(x.v)))]

Slice(x, a, b) ==
    [t |-> x.t, v |-> SubSeq(x.v, Min(a, Len(x.v)) + 1, Min(b, Len(x.v)))]

-----------------------------------------------------------------------------
(* class Parameter and its subclasses *)

Param(kind, value, optimize, bounds) ==
    [kind |-> kind, value |-> value, optimize |-> optimize, bounds |-> bounds]

NonParameter == Param("Other", None, TRUE, NoBounds)

isParameter(p) == p.kind \in {"Scalar", "Vector"}

(* Parameter.value (getter) *)
value_get(p) ==
    IF callable(p.value) THEN Num(p.value.v[1]) ELSE p.value

(* Parameter.__len__ *)
len__(p) ==
    IF isscalar(p.value) THEN Ok(1) ELSE pylen(p.value)

(* Parameter.bounds (getter): val is <<lower, upper>> *)
bounds_get(p) ==
    IF p.bounds.set
    THEN Ok(<<Arr(p.bounds.lo), Arr(p.bounds.hi)>>)
    ELSE IF len__(p).err # "ok"
         THEN [err |-> len__(p).err, val |-> <<None, None>>]
         ELSE Ok(<<Lst(Repeat(NegInf, len__(p).val)),
                   Lst(Repeat(PosInf, len__(p).val))>>)

(* Parameter.value (setter) *)
Parameter_value_set(p, value) ==
    [err |-> "ok", p |-> [p EXCEPT !.value = value]]

(* ScalarParameter.value (setter) *)
ScalarParameter_value_set(p, value) ==
    IF value.t = "none"
    THEN [err |-> "ok", p |-> [p EXCEPT !.value = value]]
    ELSE IF value.t = "arr" /\ Len(value.v) # 1
         THEN [err |-> "ValueError", p |-> p]
         ELSE LET item == IF value.t = "arr" THEN Num(value.v[1]) ELSE value
              IN  IF ~isscalar(item)
                  THEN [err |-> "TypeError", p |-> p]
                  ELSE [err |-> "ok", p |-> [p EXCEPT !.value = item]]

(* p.value = value, dispatched on the class of p *)
value_set(p, value) ==
    IF p.kind = "Scalar"
    THEN ScalarParameter_value_set(p, value)
    ELSE Parameter_value_set(p, value)

(* ScalarParameter.__init__ *)
ScalarParameter_init(value, optimize, bounds) ==
    [err |-> "ok", p |-> Param("Scalar", value, optimize, bounds)]

(* VectorParameter.__init__.  A list is converted by np.array(value,      *)
(* dtype=np.float), as in the NumPy releases that still define np.float.  *)
VectorParameter_init(value, optimize, bounds) ==
    LET arr == IF value.t = "list" THEN Arr(value.v) ELSE value
    IN  IF arr.t # "arr"
        THEN [err |-> "TypeError", p |-> NonParameter]
        ELSE IF Len(arr.v) # VectorLen
             THEN [err |-> "ValueError", p |-> NonParameter]
             ELSE [err |-> "ok", p |-> Param("Vector", arr, optimize, bounds)]

-----------------------------------------------------------------------------
(* The codec: params2ndarray and update_params *)

p_optimize_false(p) == p.optimize = FALSE

(* The two `continue` tests that open every loop over params *)
(* As skip, with the optimize test left out *)
skip_ignoring_optimize(p, optimizable_only) ==
    ~isParameter(p)

skip(p, optimizable_only) ==
    \/ ~isParameter(p)
    \/ (optimizable_only /\ p_optimize_false(p))

(* As compute_length, with len(p) taken before the optimize test *)
RECURSIVE compute_length_eager(_, _, _, _)
compute_length_eager(ps, i, optimizable_only, length) ==
    IF i > Len(ps) THEN Ok(length)
    ELSE IF ~isParameter(ps[i])
         THEN compute_length_eager(ps, i + 1, optimizable_only, length)
         ELSE IF len__(ps[i]).err # "ok"
              THEN Raise(len__(ps[i]).err)
              ELSE compute_length_eager(
                      ps, i + 1, optimizable_only,
                      length + (IF optimizable_only /\ p_optimize_false(ps[i])
                                THEN 0 ELSE len__(ps[i]).val))

(* params2ndarray, first loop: the array length *)
RECURSIVE compute_length(_, _, _, _)
compute_length(ps, i, optimizable_only, length) ==
    IF i > Len(ps) THEN Ok(length)
    ELSE IF skip(ps[i], optimizable_only)
         THEN compute_length(ps, i + 1, optimizable_only, length)
         ELSE IF len__(ps[i]).err # "ok"
              THEN Raise(len__(ps[i]).err)
              ELSE compute_length(ps, i + 1, optimizable_only,
                                  length + len__(ps[i]).val)

(* The value stored for p under key *)
store_of(p, key) ==
    IF key = "value" THEN value_get(p)
    ELSE IF key = "min_bound" THEN bounds_get(p).val[1]
    ELSE bounds_get(p).val[2]

(* out[idx : idx + len_p] = store, with numpy's broadcasting of one value *)
assign_slice(out, idx, len_p, store) ==
    IF store.t = "num" \/ Len(store.v) = 1
    THEN Ok([k \in 1..Len(out) |->
               IF k > idx /\ k <= idx + len_p THEN store.v[1] ELSE out[k]])
    ELSE IF Len(store.v) # len_p
         THEN Raise("ValueError")
         ELSE Ok([k \in 1..Len(out) |->
                    IF k > idx /\ k <= idx + len_p
                    THEN store.v[k - idx] ELSE out[k]])

(* params2ndarray, second loop: fill out *)
RECURSIVE fill(_, _, _, _, _, _)
fill(ps, i, optimizable_only, key, out, idx) ==
    IF i > Len(ps) THEN Ok(Arr(out))
    ELSE IF skip(ps[i], optimizable_only)
         THEN fill(ps, i + 1, optimizable_only, key, out, idx)
         ELSE IF key \notin {"value", "min_bound", "max_bound"}
              THEN Ok(ErrClass)
              ELSE LET len_p == len__(ps[i]).val
                       w == assign_slice(out, idx, len_p, store_of(ps[i], key))
                   IN  IF w.err # "ok" THEN Raise(w.err)
                       ELSE fill(ps, i + 1, optimizable_only, key,
                                 w.val, idx + len_p)

(* params2ndarray(params, optimizable_only, key) *)
params2ndarray(ps, optimizable_only, key) ==
    LET length == compute_length(ps, 1, optimizable_only, 0)
    IN  IF length.err # "ok" THEN Raise(length.err)
        ELSE IF length.val = 0 THEN Ok(Lst(<<>>))
        ELSE fill(ps, 1, optimizable_only, key,
                  Repeat(Uninit, length.val), 0)

(* update_params(params, x, optimizable_only): the collection it leaves *)
RECURSIVE update_loop(_, _, _, _, _)
update_loop(ps, i, idx, x, optimizable_only) ==
    IF i > Len(ps)
    THEN [err |-> IF idx = Len(x.v) THEN "ok" ELSE "AssertionError", ps |-> ps]
    ELSE IF skip(ps[i], optimizable_only)
         THEN update_loop(ps, i + 1, idx, x, optimizable_only)
         ELSE IF len__(ps[i]).err # "ok"
              THEN [err |-> len__(ps[i]).err, ps |-> ps]
              ELSE LET len_p == len__(ps[i]).val
                       w == value_set(ps[i], Slice(x, idx, idx + len_p))
                   IN  IF len_p = 0
                       THEN [err |-> "AssertionError", ps |-> ps]
                       ELSE IF w.err # "ok"
                            THEN [err |-> w.err, ps |-> ps]
                            ELSE update_loop([ps EXCEPT ![i] = w.p], i + 1,
                                             idx + len_p, x, optimizable_only)

update_params(ps, x, optimizable_only) ==
    update_loop(ps, 1, 0, x, optimizable_only)

-----------------------------------------------------------------------------
(* Inputs the callers pass *)

ScalarInputs == {Num(1), None, FnNum(1)}

VectorInputs ==
    {Arr(<<1, 2, 3>>), Lst(<<1, 2, 3>>), Arr(<<1, 2>>), Arr(<<1, 2, 3, 4>>),
     Num(1)}

ScalarAssignInputs ==
    {Num(2), Arr(<<2>>), Arr(<<>>), Arr(<<1, 2>>), Lst(<<2>>), None}

VectorAssignInputs == {Arr(<<1, 2>>)}

AssignInputs(p) ==
    IF p.kind = "Scalar" THEN ScalarAssignInputs ELSE VectorAssignInputs

BoundsInputs == {NoBounds, Bounds(<<0, 0, 0>>, <<9, 9, 9>>)}

Keys == {"value", "min_bound", "max_bound", "other"}

(* A solver-like flat vector of n distinct numbers *)
Ramp(n) == [k \in 1..n |-> k]

FlatInputs == {Arr(Ramp(n)) : n \in 0..MaxFlat} \cup {Lst(<<>>)}

-----------------------------------------------------------------------------
(* The calls on a collection.  last records the latest call: its inputs,  *)
(* what it raised (err), what it returned (ret, ret2) and the collection   *)
(* before it (old).                                                        *)

Call(op, i, arg, oo, key, err, ret, ret2) ==
    [op |-> op, i |-> i, arg |-> arg, oo |-> oo, key |-> key,
     err |-> err, ret |-> ret, ret2 |-> ret2, old |-> params]

(* params.append(ScalarParameter(value, optimize=..., bounds=...)) *)
NewScalar(value, optimize, bounds) ==
    /\ last.op = "idle"
    /\ Len(params) < MaxParams
    /\ LET r == ScalarParameter_init(value, optimize, bounds)
       IN  /\ params' = Append(params, r.p)
           /\ last' = Call("new_scalar", Len(params) + 1, value, optimize,
                           "", r.err, None, None)
    /\ UNCHANGED driverVars

(* params.append(VectorParameter(value, optimize=..., bounds=...)) *)
NewVector(value, optimize, bounds) ==
    /\ last.op = "idle"
    /\ Len(params) < MaxParams
    /\ LET r == VectorParameter_init(value, optimize, bounds)
       IN  /\ params' = IF r.err = "ok" THEN Append(params, r.p) ELSE params
           /\ last' = Call("new_vector", Len(params) + 1, value, optimize,
                           "", r.err, None, None)
    /\ UNCHANGED driverVars

(* params.append(<something that is no Parameter>) *)
NewOther ==
    /\ last.op = "idle"
    /\ Len(params) < MaxParams
    /\ params' = Append(params, NonParameter)
    /\ last' = Call("new_other", Len(params) + 1, None, TRUE, "", "ok",
                    None, None)
    /\ UNCHANGED driverVars

(* params[i].value = value *)
SetValue(i, value) ==
    /\ last.op = "idle"
    /\ i \in 1..Len(params)
    /\ isParameter(params[i])
    /\ LET r == value_set(params[i], value)
       IN  /\ params' = [params EXCEPT ![i] = r.p]
           /\ last' = Call("set", i, value, TRUE, "", r.err, None, None)
    /\ UNCHANGED driverVars

(* params[i].value *)
GetValue(i) ==
    /\ last.op = "idle"
    /\ i \in 1..Len(params)
    /\ isParameter(params[i])
    /\ last' = Call("get", i, None, TRUE, "", "ok", value_get(params[i]), None)
    /\ UNCHANGED <<params, driverVars>>

(* len(params[i]) *)
GetLen(i) ==
    /\ last.op = "idle"
    /\ i \in 1..Len(params)
    /\ isParameter(params[i])
    /\ LET r == len__(params[i])
       IN  last' = Call("len", i, None, TRUE, "", r.err,
                        IF r.err = "ok" THEN Num(r.val) ELSE None, None)
    /\ UNCHANGED <<params, driverVars>>

(* params[i].bounds *)
GetBounds(i) ==
    /\ last.op = "idle"
    /\ i \in 1..Len(params)
    /\ isParameter(params[i])
    /\ LET r == bounds_get(params[i])
       IN  last' = Call("bounds", i, None, TRUE, "", r.err, r.val[1], r.val[2])
    /\ UNCHANGED <<params, driverVars>>

(* params2ndarray(params, optimizable_only, key) *)
Pack(optimizable_only, key) ==
    /\ last.op = "idle"
    /\ LET r == params2ndarray(params, optimizable_only, key)
       IN  last' = Call("pack", 0, None, optimizable_only, key, r.err,
                        r.val, None)
    /\ UNCHANGED <<params, driverVars>>

(* update_params(params, x, optimizable_only) *)
Update(x, optimizable_only) ==
    /\ last.op = "idle"
    /\ LET r == update_params(params, x, optimizable_only)
       IN  /\ params' = r.ps
           /\ last' = Call("update", 0, x, optimizable_only, "", r.err,
                           None, None)
    /\ UNCHANGED driverVars

(* update_params(params, params2ndarray(params, oo), oo) *)
RoundTrip(optimizable_only) ==
    /\ last.op = "idle"
    /\ LET x == params2ndarray(params, optimizable_only, "value")
           r == update_params(params, x.val, optimizable_only)
       IN  IF x.err # "ok"
           THEN /\ params' = params
                /\ last' = Call("roundtrip", 0, None, optimizable_only,
                                "value", x.err, None, None)
           ELSE /\ params' = r.ps
                /\ last' = Call("roundtrip", 0, x.val, optimizable_only,
                                "value", r.err, None, None)
    /\ UNCHANGED driverVars

Idle ==
    [op |-> "idle", i |-> 0, arg |-> None, oo |-> TRUE, key |-> "",
     err |-> "ok", ret |-> None, ret2 |-> None, old |-> <<>>]

(* The call returns to its caller, which goes on to its next call *)
Return ==
    /\ last.op # "idle"
    /\ last' = Idle
    /\ UNCHANGED <<params, driverVars>>

CodecInit ==
    /\ params = <<>>
    /\ last = Idle

DriverIdle ==
    /\ pc = "idle"
    /\ nr_iters = 0
    /\ iter = 0
    /\ geoms = <<>>
    /\ markers = <<>>
    /\ hist = <<>>

Init == CodecInit /\ DriverIdle

Next ==
    \/ \E v \in ScalarInputs, o \in BOOLEAN, b \in BoundsInputs : NewScalar(v, o, b)
    \/ \E v \in VectorInputs, o \in BOOLEAN, b \in BoundsInputs : NewVector(v, o, b)
    \/ NewOther
    \/ \E i \in 1..Len(params) : \E v \in AssignInputs(params[i]) : SetValue(i, v)
    \/ \E i \in 1..MaxParams : GetValue(i)
    \/ \E i \in 1..MaxParams : GetLen(i)
    \/ \E i \in 1..MaxParams : GetBounds(i)
    \/ \E o \in BOOLEAN, k \in Keys : Pack(o, k)
    \/ \E x \in FlatInputs, o \in BOOLEAN : Update(x, o)
    \/ \E o \in BOOLEAN : RoundTrip(o)
    \/ Return

Spec == Init /\ [][Next]_vars

-----------------------------------------------------------------------------
(* The alternating calibration driver, run_initial_marker_optimization.    *)
(* hist is the record of the phases run: each entry holds the phase and    *)
(* the geometry and marker collections as the phase left them.             *)

NrMarkers == 2
SolverVals == {1, 2}

InitialGeoms ==
    { <<ScalarParameter_init(Num(1), TRUE, NoBounds).p,
        ScalarParameter_init(Num(2), TRUE, NoBounds).p>>,
      <<VectorParameter_init(Arr(<<1, 2, 3>>), TRUE, NoBounds).p,
        ScalarParameter_init(Num(1), FALSE, NoBounds).p>> }

Phase(phase) == [phase |-> phase, geoms |-> geoms', markers |-> markers']

(* The flat list of the numbers a collection holds *)
RECURSIVE Flatten(_)
Flatten(ps) ==
    IF ps = <<>> THEN <<>>
    ELSE value_get(Head(ps)).v \o Flatten(Tail(ps))

RECURSIVE WeightedSum(_, _)
WeightedSum(s, k) ==
    IF s = <<>> THEN 0 ELSE k * Head(s) + WeightedSum(Tail(s), k + 1)

(* markers_from_leastsquares_intersection(geoms, data, optimizable=...):   *)
(* one VectorParameter per marker, a function of the geometry it is given  *)
markers_from_leastsquares_intersection(gs, optimizable) ==
    [j \in 1..NrMarkers |->
        VectorParameter_init(
            Arr(<<WeightedSum(Flatten(gs), 1), j, 0>>), optimizable, NoBounds).p]

(* XrayOptimizationProblem.params() *)
problem_params(gs, ms) == gs \o ms

(* What scipy.optimize.least_squares may return for x0 *)
least_squares(x0) ==
    {Arr(s) : s \in [1..Len(x0.v) -> SolverVals]}

(* XrayOptimizationProblem.update(x) *)
problem_update(gs, ms, x) ==
    update_params(problem_params(gs, ms), x, TRUE)

(* x0=params2ndarray(problem.params()) *)
calibration_x0(gs, ms) ==
    params2ndarray(problem_params(gs, ms), TRUE, "value")

(* run_calibration(geoms, markers, data) with the solver returning x *)
run_calibration(gs, ms, x) ==
    problem_update(gs, ms, x)

(* As range_has_next, one iteration short *)
range_off_by_one(done, n) == done + 1 < n

(* for i in range(nr_iters): whether another iteration follows i done *)
range_has_next(done, n) == done < n

(* assert nr_iters > 0 *)
Enter ==
    /\ pc = "start"
    /\ pc' = IF nr_iters > 0 THEN "T" ELSE "failed"
    /\ UNCHANGED <<nr_iters, iter, geoms, markers, hist, codecVars>>

(* As PhaseT, reading the geometry the driver was called with *)
PhaseT_stale ==
    /\ pc = "T"
    /\ markers' = markers_from_leastsquares_intersection(hist[1].geoms, FALSE)
    /\ geoms' = geoms
    /\ hist' = Append(hist, Phase("T"))
    /\ pc' = "C"
    /\ UNCHANGED <<nr_iters, iter, codecVars>>

(* markers = markers_from_leastsquares_intersection(geoms, data, ...) *)
PhaseT ==
    /\ pc = "T"
    /\ markers' = markers_from_leastsquares_intersection(geoms, FALSE)
    /\ geoms' = geoms
    /\ hist' = Append(hist, Phase("T"))
    /\ pc' = "C"
    /\ UNCHANGED <<nr_iters, iter, codecVars>>

(* run_calibration(geoms, markers, data, verbose=False); next i *)
PhaseC ==
    /\ pc = "C"
    /\ LET x0 == calibration_x0(geoms, markers)
       IN  \E x \in least_squares(x0.val) :
              LET r == run_calibration(geoms, markers, x)
              IN  /\ geoms' = SubSeq(r.ps, 1, Len(geoms))
                  /\ markers' = SubSeq(r.ps, Len(geoms) + 1, Len(r.ps))
                  /\ hist' = Append(hist, Phase("C"))
                  /\ iter' = iter + 1
                  /\ pc' = IF x0.err # "ok" \/ r.err # "ok" THEN "raised"
                           ELSE IF range_has_next(iter + 1, nr_iters) THEN "T" ELSE "done"
    /\ UNCHANGED <<nr_iters, codecVars>>

DriverInit ==
    /\ CodecInit
    /\ pc = "start"
    /\ nr_iters \in -1..MaxIters
    /\ iter = 0
    /\ geoms \in InitialGeoms
    /\ markers = <<>>
    /\ hist = <<[phase |-> "start", geoms |-> geoms, markers |-> <<>>]>>

DriverNext == Enter \/ PhaseT \/ PhaseC

DriverSpec == DriverInit /\ [][DriverNext]_vars /\ WF_vars(DriverNext)

-----------------------------------------------------------------------------
(* What the claims speak of, stated apart from the operators above *)

ValueKeys == {"value", "min_bound", "max_bound"}

(* An entry takes part in a pack or unpack *)
IsIncluded(p, oo) ==
    /\ p.kind \in {"Scalar", "Vector"}
    /\ (~oo \/ p.optimize)

(* The numbers an entry's value resolves to, and how many they are *)
Numbers(p) == p.value.v
NumLen(p) == Len(p.value.v)

(* The entry holds a value of its shape: a scalar holds one number, given  *)
(* directly or by a producer; a vector holds an array of three             *)
HasShape(p) ==
    \/ p.kind = "Other"
    \/ p.kind = "Scalar" /\ p.value.t \in {"num", "fnnum"}
    \/ p.kind = "Vector" /\ p.value.t = "arr" /\ Len(p.value.v) = VectorLen

WellShaped(ps) == \A i \in 1..Len(ps) : HasShape(ps[i])

(* The sum of the lengths of the included entries among the first n *)
RECURSIVE IncludedLen(_, _, _)
IncludedLen(ps, n, oo) ==
    IF n = 0 THEN 0
    ELSE IncludedLen(ps, n - 1, oo)
         + (IF IsIncluded(ps[n], oo) THEN NumLen(ps[n]) ELSE 0)

TotalLen(ps, oo) == IncludedLen(ps, Len(ps), oo)

(* Every entry is skipped under optimizable_only=True *)
Degenerate(ps) == \A i \in 1..Len(ps) : ~IsIncluded(ps[i], TRUE)

SameValues(ps, qs) ==
    /\ Len(ps) = Len(qs)
    /\ \A i \in 1..Len(ps) :
          /\ ps[i].kind = qs[i].kind
          /\ value_get(ps[i]).v = value_get(qs[i]).v

-----------------------------------------------------------------------------
(* C1: the round trip update_params(c, params2ndarray(c)) succeeds on     *)
(* every collection of parameters that hold values of their shape, keeps  *)
(* every included value, and leaves the other entries as they were.       *)
C1_RoundTrip ==
    (last.op = "roundtrip" /\ WellShaped(last.old)) =>
        /\ last.err = "ok"
        /\ SameValues(params, last.old)
        /\ \A i \in 1..Len(params) :
              ~IsIncluded(last.old[i], last.oo) => params[i] = last.old[i]

(* The round trip does hold when every included value is stored directly *)
StoredIncluded(ps, oo) ==
    \A i \in 1..Len(ps) : IsIncluded(ps[i], oo) => ~callable(ps[i].value)

RoundTripOfStored ==
    (last.op = "roundtrip" /\ WellShaped(last.old)
        /\ StoredIncluded(last.old, last.oo)) =>
        /\ last.err = "ok"
        /\ SameValues(params, last.old)
        /\ \A i \in 1..Len(params) :
              ~IsIncluded(last.old[i], last.oo) => params[i] = last.old[i]

(* C2: update_params with a flat vector whose length is not the sum of    *)
(* the included lengths fails and has modified no parameter.              *)
C2_MismatchAtomic ==
    (/\ last.op = "update"
     /\ WellShaped(last.old)
     /\ StoredIncluded(last.old, last.oo)
     /\ Len(last.arg.v) # TotalLen(last.old, last.oo)) =>
        /\ last.err # "ok"
        /\ params = last.old

(* The failing half of C2 alone: a mismatch never passes silently *)
MismatchFails ==
    (/\ last.op = "update"
     /\ WellShaped(last.old)
     /\ Len(last.arg.v) # TotalLen(last.old, last.oo)) =>
        last.err # "ok"

(* C3: pack writes and unpack reads the flat vector in collection order:  *)
(* the i-th included entry has the slots from the sum of the earlier      *)
(* included lengths on, skipped entries have none and stay as they were.  *)
C3_OrderPreserved ==
    /\ (last.op = "pack" /\ last.key = "value" /\ last.err = "ok") =>
          /\ Len(last.ret.v) = TotalLen(last.old, last.oo)
          /\ \A i \in 1..Len(last.old) :
                IsIncluded(last.old[i], last.oo) =>
                   SubSeq(last.ret.v,
                          IncludedLen(last.old, i - 1, last.oo) + 1,
                          IncludedLen(last.old, i, last.oo))
                      = Numbers(last.old[i])
    /\ (last.op = "update" /\ last.err = "ok") =>
          \A i \in 1..Len(last.old) :
             IF IsIncluded(last.old[i], last.oo)
             THEN Numbers(params[i])
                     = SubSeq(last.arg.v,
                              IncludedLen(last.old, i - 1, last.oo) + 1,
                              IncludedLen(last.old, i, last.oo))
             ELSE params[i] = last.old[i]

(* A scalar, then a vector, unpacked from four distinct numbers *)
C3_Witness ==
    /\ last.op = "update" /\ last.err = "ok" /\ last.oo
    /\ Len(params) = 2
    /\ params[1].kind = "Scalar" /\ params[1].value = Num(1)
    /\ params[2].kind = "Vector" /\ params[2].value = Arr(<<2, 3, 4>>)

(* C4: the packed length is the sum of the lengths of the included        *)
(* entries, whatever the key; an entry with optimize false adds nothing   *)
(* under optimizable_only; the three keys give vectors of one length.     *)
C4_LengthConservation ==
    (last.op = "pack" /\ last.key \in ValueKeys /\ last.err = "ok") =>
        /\ Len(last.ret.v) = TotalLen(last.old, last.oo)
        /\ \A k \in ValueKeys :
              LET r == params2ndarray(last.old, last.oo, k)
              IN  r.err = "ok" => Len(r.val.v) = Len(last.ret.v)

(* The bounds of an included vector packed beside a skipped, bounded one *)
C4_Witness ==
    /\ last.op = "pack" /\ last.key = "min_bound" /\ last.err = "ok" /\ last.oo
    /\ Len(last.ret.v) = VectorLen
    /\ \E i \in 1..Len(params) :
          /\ params[i].kind = "Vector" /\ ~params[i].optimize
          /\ params[i].bounds.set

(* C5: assigning to a ScalarParameter succeeds iff the value is a number  *)
(* or a one-element array, then a read gives a number; anything else      *)
(* fails with a TypeError and leaves the value unchanged.                 *)
C5_ScalarAssign ==
    (last.op = "set" /\ last.old[last.i].kind = "Scalar"
        /\ last.arg.t # "none") =>
        LET single == \/ last.arg.t = "num"
                      \/ (last.arg.t = "arr" /\ Len(last.arg.v) = 1)
        IN  /\ (last.err = "ok") <=> single
            /\ last.err = "ok" => value_get(params[last.i]).t = "num"
            /\ last.err # "ok" => (last.err = "TypeError" /\ params = last.old)

(* C6: a VectorParameter is constructed only from three numbers, and      *)
(* every VectorParameter has length three in every reachable state.       *)
C6_VectorLength ==
    /\ last.op = "new_vector" =>
          ((last.err = "ok") <=> Len(last.arg.v) = VectorLen /\ last.arg.t # "num")
    /\ \A i \in 1..Len(params) :
          params[i].kind = "Vector" => len__(params[i]) = Ok(VectorLen)

(* C8: with every entry skipped, pack gives an empty vector and unpack of *)
(* an empty vector changes nothing; neither raises.                       *)
C8_Degenerate ==
    /\ (last.op = "pack" /\ last.oo /\ Degenerate(last.old)) =>
          (last.err = "ok" /\ last.ret.v = <<>>
              /\ last.ret.t \in {"list", "arr"})
    /\ (last.op = "update" /\ last.oo /\ Degenerate(last.old)
           /\ last.arg.v = <<>>) =>
          (last.err = "ok" /\ params = last.old)
    /\ (last.op = "roundtrip" /\ last.oo /\ Degenerate(last.old)) =>
          (last.err = "ok" /\ last.arg.v = <<>> /\ params = last.old)

(* Two parameters with optimize false, one a producer, packed and unpacked *)
C8_Witness ==
    /\ last.op = "roundtrip" /\ last.oo /\ last.err = "ok"
    /\ Len(last.old) = 2
    /\ \A i \in 1..2 : isParameter(last.old[i]) /\ ~last.old[i].optimize
    /\ \E i \in 1..2 : callable(last.old[i].value)

(* C9: without explicit bounds, bounds are -inf and +inf repeated to the  *)
(* length of the resolved value, producer or not; len() is that length;   *)
(* explicit bounds are returned as they are.                              *)
C9_BoundsAndLen ==
    LET p == last.old[last.i]
        n == Len(value_get(p).v)
    IN  /\ (last.op = "bounds" /\ p.value.t # "none") =>
              IF p.bounds.set
              THEN /\ last.err = "ok"
                   /\ last.ret.v = p.bounds.lo /\ last.ret2.v = p.bounds.hi
              ELSE /\ last.err = "ok"
                   /\ last.ret.v = Repeat(NegInf, n)
                   /\ last.ret2.v = Repeat(PosInf, n)
        /\ (last.op = "len" /\ p.value.t # "none") =>
              (last.err = "ok" /\ last.ret = Num(n))

(* C9 does hold of every parameter whose value is stored directly *)
BoundsAndLenOfStored ==
    LET p == last.old[last.i]
        n == Len(value_get(p).v)
    IN  /\ (last.op = "bounds" /\ p.value.t \in {"num", "arr"}) =>
              IF p.bounds.set
              THEN /\ last.err = "ok"
                   /\ last.ret.v = p.bounds.lo /\ last.ret2.v = p.bounds.hi
              ELSE /\ last.err = "ok"
                   /\ last.ret.v = Repeat(NegInf, n)
                   /\ last.ret2.v = Repeat(PosInf, n)
        /\ (last.op = "len" /\ p.value.t \in {"num", "arr"}) =>
              (last.err = "ok" /\ last.ret = Num(n))

-----------------------------------------------------------------------------
(* The driver's claims *)

Terminated == pc \in {"done", "failed"}

(* The phases run so far are T, C, T, C, ... and at most nr_iters pairs *)
Alternating ==
    /\ hist[1].phase = "start"
    /\ \A k \in 2..Len(hist) :
          hist[k].phase = (IF k % 2 = 0 THEN "T" ELSE "C")
    /\ Len(hist) <= 1 + 2 * (IF nr_iters > 0 THEN nr_iters ELSE 0)
    /\ pc = "T" => Len(hist) % 2 = 1
    /\ pc = "C" => Len(hist) % 2 = 0

IterationCount ==
    /\ pc = "done" => (nr_iters > 0 /\ Len(hist) = 1 + 2 * nr_iters)
    /\ pc = "failed" =>
          (nr_iters <= 0 /\ Len(hist) = 1 /\ geoms = hist[1].geoms)
    /\ nr_iters <= 0 => pc \in {"start", "failed"}
    /\ pc # "raised"

(* C7: for nr_iters > 0 the driver runs exactly nr_iters iterations, each *)
(* a Phase T then a Phase C, and then ends; for nr_iters <= 0 it fails    *)
(* before any phase, the geometry untouched.                              *)
C7_IterationsAndTermination ==
    /\ [](Alternating /\ IterationCount)
    /\ <>Terminated

(* Three full iterations done *)
C7_Witness ==
    /\ pc = "done" /\ nr_iters = 3
    /\ Len(hist) = 7
    /\ hist[6].phase = "T" /\ hist[7].phase = "C"

(* C10: each Phase T reads the geometry as the phase before left it and   *)
(* makes fresh markers, all with optimize false; Phase C leaves the       *)
(* markers as they are; the driver returns the markers of its last        *)
(* Phase T, computed from the geometry before the last Phase C.           *)
C10_PhaseCoupling ==
    /\ \A k \in 2..Len(hist) :
          IF hist[k].phase = "T"
          THEN /\ hist[k].geoms = hist[k - 1].geoms
               /\ Len(hist[k].markers) = NrMarkers
               /\ \A j \in 1..NrMarkers :
                     /\ hist[k].markers[j].kind = "Vector"
                     /\ hist[k].markers[j].optimize = FALSE
                     /\ hist[k].markers[j].value =
                           Arr(<<WeightedSum(Flatten(hist[k - 1].geoms), 1), j, 0>>)
          ELSE /\ hist[k].markers = hist[k - 1].markers
               /\ Len(hist[k].geoms) = Len(hist[k - 1].geoms)
               /\ \A j \in 1..Len(hist[k].geoms) :
                     ~hist[k - 1].geoms[j].optimize =>
                        hist[k].geoms[j] = hist[k - 1].geoms[j]
    /\ pc = "done" =>
          /\ markers = hist[Len(hist) - 1].markers
          /\ \A j \in 1..NrMarkers :
                markers[j].value =
                   Arr(<<WeightedSum(Flatten(hist[Len(hist) - 2].geoms), 1), j, 0>>)

(* The driver has returned markers that the final geometry would not give *)
C10_Witness ==
    /\ pc = "done" /\ nr_iters >= 2
    /\ hist[Len(hist)].geoms # hist[Len(hist) - 1].geoms
    /\ hist[3].geoms # hist[1].geoms
    /\ markers # markers_from_leastsquares_intersection(geoms, FALSE)

=============================================================================
